---- MODULE Spec2Model ----
(***************************************************************************)
(* Model of src/ai_real_estate_agent.py: PropertyFindingAgent (its         *)
(* constructor, find_properties and get_location_trends), the              *)
(* CustomOpenAIWrapper it calls, and main(), which drives one run.         *)
(*                                                                         *)
(* Text is a sequence of atoms.  User-supplied text (city, building names, *)
(* exception messages) is spelled character by character; the fixed parts  *)
(* of the f-string templates are single atoms.  The characters of the      *)
(* modelled inputs are letters that do not occur in the fixed template     *)
(* text, so a template atom never hides an occurrence of an input.         *)
(*                                                                         *)
(* Python values that cross the Extraction Client boundary are tagged      *)
(* records: [t |-> "None"], [t |-> "bool", v |-> b], [t |-> "dict", v |-> f]*)
(* with f a function from keys to values, [t |-> "list", v |-> seq].       *)
(***************************************************************************)
EXTENDS Integers, Sequences, FiniteSets, TLC

\* ------------------------------------------------------------- bounds
MaxCityLen == 2
MaxProps == 2

\* ------------------------------------------------------------- text
Contains(text, sub) ==
    \E i \in 1..(Len(text) + 1) :
        /\ i + Len(sub) - 1 <= Len(text)
        /\ SubSeq(text, i, i + Len(sub) - 1) = sub

StartsWith(text, pre) ==
    /\ Len(pre) <= Len(text)
    /\ SubSeq(text, 1, Len(pre)) = pre

RECURSIVE Join(_, _)
Join(seqs, sep) ==
    IF seqs = <<>> THEN <<>>
    ELSE IF Len(seqs) = 1 THEN Head(seqs)
    ELSE Head(seqs) \o sep \o Join(Tail(seqs), sep)

RECURSIVE SeqsUpTo(_, _)
SeqsUpTo(S, n) ==
    IF n = 0 THEN {<<>>}
    ELSE LET shorter == SeqsUpTo(S, n - 1)
         IN  shorter \cup {Append(s, c) : s \in shorter, c \in S}

\* str.lower() on the modelled letters: "J" has the lower case "j".
LowerChar(c) == IF c = "J" THEN "j" ELSE c

Lower(s) == [k \in 1..Len(s) |-> LowerChar(s[k])]

\* str(x) of a non-negative int.
DigitChar(d) == <<"0", "1", "2", "3", "4", "5", "6", "7", "8", "9">>[d + 1]

RECURSIVE StrInt(_)
StrInt(n) ==
    IF n < 10 THEN <<DigitChar(n)>>
    ELSE Append(StrInt(n \div 10), DigitChar(n % 10))

\* str(x) / repr(x) of a float with one decimal, held as a number of tenths.
StrFloat(t) ==
    LET a == IF t < 0 THEN 0 - t ELSE t
    IN  (IF t < 0 THEN <<"-">> ELSE <<>>)
            \o StrInt(a \div 10) \o <<".">> \o <<DigitChar(a % 10)>>

\* repr(s) of a str: double quotes when s has a single quote and no double
\* quote, single quotes otherwise; the backslash and the chosen quote are
\* escaped.
ReprQuote(s) ==
    IF (\E k \in 1..Len(s) : s[k] = "'") /\ ~(\E k \in 1..Len(s) : s[k] = "\"")
    THEN "\"" ELSE "'"

RECURSIVE ReprEscape(_, _)
ReprEscape(s, q) ==
    IF s = <<>> THEN <<>>
    ELSE (IF Head(s) = "\\" \/ Head(s) = q THEN <<"\\", Head(s)>> ELSE <<Head(s)>>)
            \o ReprEscape(Tail(s), q)

ReprStr(s) == <<ReprQuote(s)>> \o ReprEscape(s, ReprQuote(s)) \o <<ReprQuote(s)>>

\* ------------------------------------------------------------- Python values
Absent == [t |-> "absent"]
PyNone == [t |-> "None"]
PyBool(b) == [t |-> "bool", v |-> b]
PyList(s) == [t |-> "list", v |-> s]
PyDict(f) == [t |-> "dict", v |-> f]

\* The keys the code looks up; a dict holds Absent at a key it lacks.
EnvelopeKeys == {"success", "data"}
PayloadKeys == {"properties", "locations"}

IsDict(x) == x.t = "dict"
HasKey(d, k) == d.v[k] # Absent
\* dict.get(k, default)
Get(d, k, default) == IF HasKey(d, k) THEN d.v[k] ELSE default
\* bool(x)
Truthy(x) ==
    CASE x.t = "bool" -> x.v
      [] x.t = "list" -> x.v # <<>>
      [] x.t = "dict" -> \E k \in DOMAIN x.v : x.v[k] # Absent
      [] OTHER -> FALSE

Returned(v) == [raised |-> FALSE, value |-> v]
Raised(msg) == [raised |-> TRUE, msg |-> msg]

\* ------------------------------------------------------------- schema records
\* A PropertyData dict as the extraction service returns it (keys by alias).
BuildingName(k) ==
    IF k % 2 = 0 THEN <<"Q", "'", DigitChar(k % 10)>> ELSE <<"Q", DigitChar(k % 10)>>

PropertyData(k) ==
    [Building_name |-> BuildingName(k),
     Property_type |-> <<"residential">>,
     location_address |-> <<DigitChar(k % 10), " ", "M", "G", " ", "R", "d">>,
     Price |-> StrInt(k) \o <<" ", "C", "r">>,
     Description |-> <<"3BHK">>]

\* A LocationData dict; the floats are held in tenths.
LocationData(k) ==
    [location |-> <<"W", DigitChar(k % 10)>>,
     price_per_sqft |-> 85000 + k,
     percent_increase |-> 25 - 20 * k,
     rental_yield |-> 30 + k]

\* repr() of the two kinds of dict.
ReprPropertyData(r) ==
    <<"{", "'Building_name': ">> \o ReprStr(r.Building_name)
        \o <<", ", "'Property_type': ">> \o ReprStr(r.Property_type)
        \o <<", ", "'location_address': ">> \o ReprStr(r.location_address)
        \o <<", ", "'Price': ">> \o ReprStr(r.Price)
        \o <<", ", "'Description': ">> \o ReprStr(r.Description)
        \o <<"}">>

ReprLocationData(r) ==
    <<"{", "'location': ">> \o ReprStr(r.location)
        \o <<", ", "'price_per_sqft': ">> \o StrFloat(r.price_per_sqft)
        \o <<", ", "'percent_increase': ">> \o StrFloat(r.percent_increase)
        \o <<", ", "'rental_yield': ">> \o StrFloat(r.rental_yield)
        \o <<"}">>

ReprItem(r) ==
    IF "Building_name" \in DOMAIN r THEN ReprPropertyData(r) ELSE ReprLocationData(r)

\* str() of a list, as an f-string field formats it.
StrList(items) ==
    <<"[">> \o Join([k \in 1..Len(items) |-> ReprItem(items[k])], <<", ">>) \o <<"]">>

\* ------------------------------------------------------------- inputs
CityChars == {"J", "j", "_"}
Cities == SeqsUpTo(CityChars, MaxCityLen) \ {<<>>}
Prices == {5, 50}
PropertyCategories == {<<"Residential">>, <<"Commercial">>}
PropertyTypes == {<<"Flat">>, <<"Individual House">>}
ModelIds == {"gpt-4"}
ExcMessages == {<<"E", "1">>, <<"E", "2">>}

Properties(n) == [k \in 1..n |-> PropertyData(k)]
Locations(n) == [k \in 1..n |-> LocationData(k)]

Envelope(success, data) ==
    PyDict([k \in EnvelopeKeys |-> IF k = "success" THEN success ELSE data])
Payload(properties, locations) ==
    PyDict([k \in PayloadKeys |-> IF k = "properties" THEN properties ELSE locations])

\* What FirecrawlApp.extract may hand back: not a dict, a dict without the
\* success flag, a failure envelope, a success envelope without data, with a
\* null data, with a data lacking the key, and with 0..MaxProps items.
FailureEnvelopes ==
    {Envelope(Absent, Absent), Envelope(PyBool(FALSE), Absent)}

MalformedSuccessEnvelopes ==
    {Envelope(PyBool(TRUE), Absent), Envelope(PyBool(TRUE), PyNone)}

PropertiesEnvelopes ==
    {Envelope(PyBool(TRUE), Payload(Absent, Absent))}
        \cup {Envelope(PyBool(TRUE), Payload(PyList(Properties(n)), Absent)) : n \in 0..MaxProps}

LocationsEnvelopes ==
    {Envelope(PyBool(TRUE), Payload(Absent, Absent))}
        \cup {Envelope(PyBool(TRUE), Payload(Absent, PyList(Locations(n)))) : n \in 0..MaxProps}

Methods == {"find_properties", "get_location_trends"}

ExtractOutcomes ==
    [op \in Methods |->
        {Raised(m) : m \in ExcMessages}
            \cup {Returned(v) : v \in {PyNone} \cup FailureEnvelopes
                                        \cup MalformedSuccessEnvelopes}
            \cup {Returned(v) : v \in IF op = "find_properties"
                                       THEN PropertiesEnvelopes ELSE LocationsEnvelopes}]

\* What the chat completion may do with a prompt: raise, echo it, or answer
\* with a text of its own.
Echo == [raised |-> FALSE, echo |-> TRUE]

GenOutcomes ==
    {Raised(m) : m \in ExcMessages} \cup {Echo, Returned(<<"analysis">>)}

\* The outcome of the chat completion for this prompt.
Completion(outcome, prompt) == IF outcome = Echo THEN Returned(prompt) ELSE outcome

\* ------------------------------------------------------------- requests
\* SourceLocations with the lower-casing left out of the second template.
SourceLocations_NoLower(city) ==
    LET formatted_location == Lower(city)
    IN  << <<"https://www.squareyards.com/sale/property-for-sale-in-">>
               \o formatted_location \o <<"/*">>,
           <<"https://www.99acres.com/property-in-">>
               \o city \o <<"-ffid/*">>,
           <<"https://housing.com/in/buy/">>
               \o formatted_location \o <<"/">> \o formatted_location >>

\* find_properties, lines 55-60: the source locations.
SourceLocations(city) ==
    LET formatted_location == Lower(city)
    IN  << <<"https://www.squareyards.com/sale/property-for-sale-in-">>
               \o formatted_location \o <<"/*">>,
           <<"https://www.99acres.com/property-in-">>
               \o formatted_location \o <<"-ffid/*">>,
           <<"https://housing.com/in/buy/">>
               \o formatted_location \o <<"/">> \o formatted_location >>

\* find_properties, line 62.
PropertyTypePrompt(property_type) ==
    IF property_type = <<"Flat">> THEN <<"Flats">> ELSE <<"Individual Houses">>

\* find_properties, lines 64-80: the arguments of firecrawl.extract.
FindExtractRequest(city, max_price, property_category, property_type) ==
    [urls |-> SourceLocations(city),
     prompt |->
        <<"Extract ONLY 10 OR LESS different ">> \o property_category \o <<" ">>
            \o PropertyTypePrompt(property_type) \o <<" from ">> \o city
            \o <<" that cost less than ">> \o StrFloat(max_price) \o <<" crores.">>
            \o <<"Requirements:", "- Property Category: ">> \o property_category
            \o <<" properties only", "- Property Type: ">>
            \o PropertyTypePrompt(property_type)
            \o <<" only", "- Location: ">> \o city
            \o <<"- Maximum Price: ">> \o StrFloat(max_price) \o <<" crores">>
            \o <<"- Include complete property details with exact location",
                 "- IMPORTANT: Return data for at least 3 different properties. MAXIMUM 10.",
                 "- Format as a list of properties with their respective details">>,
     schema |-> "PropertiesResponse"]

\* find_properties, lines 88-126: the analysis prompt.
FindAnalysisPrompt(properties, max_price, property_category, property_type) ==
    <<"As a real estate expert, analyze these properties and market trends:",
      "Properties Found:">> \o StrList(properties)
        \o <<"**IMPORTANT INSTRUCTIONS:**",
             "1. ONLY analyze properties from the above data that match:",
             "- Property Category: ">> \o property_category
        \o <<"- Property Type: ">> \o property_type
        \o <<"- Maximum Price: ">> \o StrFloat(max_price) \o <<" crores">>
        \o <<"2. Select 5-6 properties with prices closest to ">>
        \o StrFloat(max_price) \o <<" crores">>
        \o <<"Provide analysis in this format:", "SELECTED PROPERTIES",
             "BEST VALUE ANALYSIS", "LOCATION INSIGHTS", "RECOMMENDATIONS",
             "NEGOTIATION TIPS">>

\* get_location_trends, lines 137-148: the arguments of firecrawl.extract.
TrendsExtractRequest(city) ==
    [urls |-> << <<"https://www.99acres.com/property-rates-and-price-trends-in-">>
                    \o Lower(city) \o <<"-prffid/*">> >>,
     prompt |-> <<"Extract price trends data for ALL major localities in the city.",
                  "IMPORTANT:", "- Return data for at least 5-10 different localities",
                  "- Include both premium and affordable areas",
                  "- Do not skip any locality mentioned in the source",
                  "- Format as a list of locations with their respective data">>,
     schema |-> "LocationsResponse"]

\* get_location_trends, lines 154-183: the analysis prompt.
TrendsAnalysisPrompt(locations, city) ==
    <<"Analyze these location price trends for ">> \o city \o <<":">>
        \o StrList(locations)
        \o <<"Provide:", "1. Summary of price trends for each location",
             "2. Top 3 locations for:", "3. Investment recommendations:",
             "4. Specific investor advice", "Format:", "LOCATION TRENDS SUMMARY",
             "TOP PERFORMING AREAS", "INVESTMENT INSIGHTS", "RECOMMENDATIONS">>

\* CustomOpenAIWrapper.run, lines 14-17: the chat completion request.
ChatRequest(wrapper, prompt) ==
    [model |-> wrapper.model, messages |-> <<[role |-> "user", content |-> prompt]>>]

\* CustomOpenAIWrapper.run, line 18: the object it returns.
Obj(content) == [t |-> "Obj", content |-> content]

\* FindListings raising on anything but a success envelope instead of
\* falling back to the empty list.
FindListings_Abort(raw_response) ==
    IF IsDict(raw_response) /\ Truthy(Get(raw_response, "success", PyNone))
    THEN IF ~HasKey(raw_response, "data") THEN Raised(<<"'data'">>)
         ELSE IF ~IsDict(raw_response.v["data"])
              THEN Raised(<<"'NoneType' object has no attribute 'get'">>)
              ELSE Returned(Get(raw_response.v["data"], "properties", PyList(<<>>)).v)
    ELSE Raised(<<"extraction failed">>)

\* Lines 82-85: the listings taken from raw_response, or the exception that
\* the subscript or the .get raises.
FindListings(raw_response) ==
    IF IsDict(raw_response) /\ Truthy(Get(raw_response, "success", PyNone))
    THEN IF ~HasKey(raw_response, "data") THEN Raised(<<"'data'">>)
         ELSE IF ~IsDict(raw_response.v["data"])
              THEN Raised(<<"'NoneType' object has no attribute 'get'">>)
              ELSE Returned(Get(raw_response.v["data"], "properties", PyList(<<>>)).v)
    ELSE Returned(<<>>)

\* Lines 150-151: does get_location_trends take the success branch, and with
\* which locations.
TrendsSuccess(raw_response) ==
    IsDict(raw_response) /\ Truthy(Get(raw_response, "success", PyNone))

TrendsLocations(raw_response) ==
    IF ~HasKey(raw_response, "data") THEN Raised(<<"'data'">>)
    ELSE IF ~IsDict(raw_response.v["data"])
         THEN Raised(<<"'NoneType' object has no attribute 'get'">>)
         ELSE Returned(Get(raw_response.v["data"], "locations", PyList(<<>>)).v)

\* ErrorText without the marker: the bare str(e).
ErrorText_NoMarker(msg) == msg

\* Lines 133 and 192: the text an except clause returns.
ErrorText(msg) == <<"Error: ">> \o msg

NoTrendsText == <<"No price trends data available">>

\* ------------------------------------------------------------- state
VARIABLES
    mainpc,      \* where main() is: clicked, constructing, except, constructed,
                 \* finding, trending, returned; "caller" when main is not running
    input,       \* the widget values main() read
    self,        \* the agent's attributes: agent (the wrapper), firecrawl
    ctor,        \* how PropertyFindingAgent.__init__ ended
    errors,      \* the texts given to st.error, in order
    rendered,    \* the texts given to st.markdown, in order
    calls,       \* per call of an agent method: its position and locals
    extractLog,  \* per call: the requests it sent to firecrawl.extract
    genLog,      \* per call: the requests it sent to the chat completion
    pending      \* the external calls in flight: <<call, "extract" or "generate">>

vars == <<mainpc, input, self, ctor, errors, rendered, calls, extractLog, genLog,
          pending>>

\* Two calls: main() makes them one after the other, other callers may
\* overlap them.
Calls == {1, 2}

Unset == [t |-> "unset"]

IdleCall ==
    [pc |-> "idle", op |-> "none", city |-> <<>>, max_price |-> 0,
     property_category |-> <<>>, property_type |-> <<>>,
     raw_response |-> Unset, items |-> <<>>, analysis |-> Unset,
     exc |-> <<>>, ret |-> "none", result |-> <<>>]

\* PropertyFindingAgent.__init__ and CustomOpenAIWrapper.__init__: the
\* attributes once both clients are built.
Constructed(model_id) ==
    [agent |-> [t |-> "CustomOpenAIWrapper", client |-> "OpenAI", model |-> model_id],
     firecrawl |-> [t |-> "FirecrawlApp"]]

Inputs ==
    [firecrawl_key : {"", "fc"}, openai_key : {"", "sk"}, model_id : ModelIds,
     city : Cities \cup {<<>>}, max_price : Prices,
     property_category : PropertyCategories, property_type : PropertyTypes]

NoCtor == [outcome |-> "none", failed |-> "none", msg |-> <<>>]

\* main() after the button is pressed.
Init ==
    /\ mainpc = "clicked"
    /\ input \in Inputs
    /\ self = [agent |-> Unset, firecrawl |-> Unset]
    /\ ctor = NoCtor
    /\ errors = <<>>
    /\ rendered = <<>>
    /\ calls = [i \in Calls |-> IdleCall]
    /\ extractLog = [i \in Calls |-> <<>>]
    /\ genLog = [i \in Calls |-> <<>>]
    /\ pending = {}

\* ------------------------------------------------------------- the two methods
\* Except returning a fixed text instead of one built from str(e).
Except_FixedText(i, raw_response, msg) ==
    /\ errors' = Append(errors, <<"Error in ", calls[i].op, ": ">> \o msg)
    /\ calls' = [calls EXCEPT ![i].pc = "done", ![i].raw_response = raw_response,
                              ![i].exc = msg, ![i].ret = "except",
                              ![i].result = <<"Error: ", "request failed">>]

\* The except clauses, lines 131-133 and 190-192.
Except(i, raw_response, msg) ==
    /\ errors' = Append(errors, <<"Error in ", calls[i].op, ": ">> \o msg)
    /\ calls' = [calls EXCEPT ![i].pc = "done", ![i].raw_response = raw_response,
                              ![i].exc = msg, ![i].ret = "except",
                              ![i].result = ErrorText(msg)]

\* Run sending the prompt an overlapping call left behind, as a wrapper that
\* kept its prompt in an attribute would.
Run_SharedPrompt(i, prompt) ==
    /\ genLog' = [genLog EXCEPT ![i] = Append(@, ChatRequest(self.agent,
            IF \E j \in Calls \ {i} : genLog[j] # <<>>
            THEN genLog[CHOOSE j \in Calls \ {i} : genLog[j] # <<>>][1].messages[1].content
            ELSE prompt))]
    /\ pending' = (pending \ {<<i, "extract">>}) \cup {<<i, "generate">>}

\* self.agent.run(prompt) up to the chat completion call, lines 13-17.
Run(i, prompt) ==
    /\ genLog' = [genLog EXCEPT ![i] = Append(@, ChatRequest(self.agent, prompt))]
    /\ pending' = (pending \ {<<i, "extract">>}) \cup {<<i, "generate">>}

\* find_properties from its entry to the firecrawl.extract call, lines 54-80.
FindBegin(i, city, max_price, property_category, property_type) ==
    /\ calls[i].pc = "idle"
    /\ self.firecrawl # Unset
    /\ calls' = [calls EXCEPT ![i] =
            [IdleCall EXCEPT !.pc = "extracting", !.op = "find_properties",
                             !.city = city, !.max_price = max_price,
                             !.property_category = property_category,
                             !.property_type = property_type]]
    /\ extractLog' = [extractLog EXCEPT ![i] = Append(@,
            FindExtractRequest(city, max_price, property_category, property_type))]
    /\ pending' = pending \cup {<<i, "extract">>}
    /\ UNCHANGED <<self, genLog, errors>>

\* find_properties from the return of firecrawl.extract to the chat
\* completion call, lines 64-87, or to the except clause.
FindOnExtract(i, outcome) ==
    /\ calls[i].pc = "extracting"
    /\ calls[i].op = "find_properties"
    /\ IF outcome.raised
       THEN /\ Except(i, Unset, outcome.msg)
            /\ pending' = pending \ {<<i, "extract">>}
            /\ UNCHANGED genLog
       ELSE LET properties == FindListings(outcome.value)
            IN  IF properties.raised
                THEN /\ Except(i, outcome.value, properties.msg)
                     /\ pending' = pending \ {<<i, "extract">>}
                     /\ UNCHANGED genLog
                ELSE /\ calls' = [calls EXCEPT ![i].pc = "generating",
                            ![i].raw_response = outcome.value,
                            ![i].items = properties.value]
                     /\ Run(i, FindAnalysisPrompt(properties.value, calls[i].max_price,
                            calls[i].property_category, calls[i].property_type))
                     /\ UNCHANGED errors
    /\ UNCHANGED <<self, extractLog>>

\* FindOnGenerate calling the chat completion again when it raised.
FindOnGenerate_Retry(i, outcome) ==
    /\ calls[i].pc = "generating"
    /\ calls[i].op = "find_properties"
    /\ IF outcome.raised
       THEN /\ genLog' = [genLog EXCEPT ![i] = Append(@, @[Len(@)])]
            /\ UNCHANGED <<calls, errors, pending>>
       ELSE /\ calls' = [calls EXCEPT ![i].pc = "done",
                   ![i].analysis = Obj(outcome.value), ![i].ret = "analysis",
                   ![i].result = Obj(outcome.value).content]
            /\ pending' = pending \ {<<i, "generate">>}
            /\ UNCHANGED <<errors, genLog>>
    /\ UNCHANGED <<self, extractLog>>

\* find_properties from the return of the chat completion to its own return,
\* lines 87-129, or to the except clause.
FindOnGenerate(i, outcome) ==
    /\ calls[i].pc = "generating"
    /\ calls[i].op = "find_properties"
    /\ IF outcome.raised
       THEN Except(i, calls[i].raw_response, outcome.msg)
       ELSE /\ calls' = [calls EXCEPT ![i].pc = "done",
                   ![i].analysis = Obj(outcome.value), ![i].ret = "analysis",
                   ![i].result = Obj(outcome.value).content]
            /\ UNCHANGED errors
    /\ pending' = pending \ {<<i, "generate">>}
    /\ UNCHANGED <<self, extractLog, genLog>>

\* get_location_trends from its entry to the firecrawl.extract call,
\* lines 136-148.
TrendsBegin(i, city) ==
    /\ calls[i].pc = "idle"
    /\ self.firecrawl # Unset
    /\ calls' = [calls EXCEPT ![i] =
            [IdleCall EXCEPT !.pc = "extracting", !.op = "get_location_trends",
                             !.city = city]]
    /\ extractLog' = [extractLog EXCEPT ![i] = Append(@, TrendsExtractRequest(city))]
    /\ pending' = pending \cup {<<i, "extract">>}
    /\ UNCHANGED <<self, genLog, errors>>

\* get_location_trends from the return of firecrawl.extract to the chat
\* completion call, to the "no data" return (line 188) or to the except clause.
TrendsOnExtract(i, outcome) ==
    /\ calls[i].pc = "extracting"
    /\ calls[i].op = "get_location_trends"
    /\ IF outcome.raised
       THEN /\ Except(i, Unset, outcome.msg)
            /\ pending' = pending \ {<<i, "extract">>}
            /\ UNCHANGED genLog
       ELSE IF ~TrendsSuccess(outcome.value)
       THEN /\ calls' = [calls EXCEPT ![i].pc = "done",
                   ![i].raw_response = outcome.value, ![i].ret = "nodata",
                   ![i].result = NoTrendsText]
            /\ pending' = pending \ {<<i, "extract">>}
            /\ UNCHANGED <<genLog, errors>>
       ELSE LET locations == TrendsLocations(outcome.value)
            IN  IF locations.raised
                THEN /\ Except(i, outcome.value, locations.msg)
                     /\ pending' = pending \ {<<i, "extract">>}
                     /\ UNCHANGED genLog
                ELSE /\ calls' = [calls EXCEPT ![i].pc = "generating",
                            ![i].raw_response = outcome.value,
                            ![i].items = locations.value]
                     /\ Run(i, TrendsAnalysisPrompt(locations.value, calls[i].city))
                     /\ UNCHANGED errors
    /\ UNCHANGED <<self, extractLog>>

\* get_location_trends from the return of the chat completion to its own
\* return, lines 153-186, or to the except clause.
TrendsOnGenerate(i, outcome) ==
    /\ calls[i].pc = "generating"
    /\ calls[i].op = "get_location_trends"
    /\ IF outcome.raised
       THEN Except(i, calls[i].raw_response, outcome.msg)
       ELSE /\ calls' = [calls EXCEPT ![i].pc = "done",
                   ![i].analysis = Obj(outcome.value), ![i].ret = "analysis",
                   ![i].result = Obj(outcome.value).content]
            /\ UNCHANGED errors
    /\ pending' = pending \ {<<i, "generate">>}
    /\ UNCHANGED <<self, extractLog, genLog>>

\* ------------------------------------------------------------- main()
\* Lines 226-233: the checks before the agent is built.
MainValidate ==
    /\ mainpc = "clicked"
    /\ IF input.firecrawl_key = "" \/ input.openai_key = ""
       THEN /\ errors' = Append(errors, <<"Please enter both API keys in the sidebar">>)
            /\ mainpc' = "returned"
       ELSE IF input.city = <<>>
       THEN /\ errors' = Append(errors, <<"Please enter a city name">>)
            /\ mainpc' = "returned"
       ELSE /\ mainpc' = "constructing"
            /\ UNCHANGED errors
    /\ UNCHANGED <<input, self, ctor, rendered, calls, extractLog, genLog, pending>>

\* Construct with an __init__ that reports a FirecrawlApp failure and then
\* returns instead of raising.
Construct_Swallow(built) ==
    /\ mainpc = "constructing"
    /\ IF built.failed = "none"
       THEN /\ self' = Constructed(input.model_id)
            /\ ctor' = [outcome |-> "returned", failed |-> "none", msg |-> <<>>]
            /\ mainpc' = "constructed"
            /\ UNCHANGED errors
       ELSE IF built.failed = "openai"
       THEN /\ ctor' = [outcome |-> "raised", failed |-> "openai", msg |-> built.msg]
            /\ mainpc' = "except"
            /\ UNCHANGED <<self, errors>>
       ELSE /\ self' = [self EXCEPT !.agent = Constructed(input.model_id).agent]
            /\ errors' = Append(errors, <<"Failed to initialize Firecrawl: ">> \o built.msg)
            /\ ctor' = [outcome |-> "returned", failed |-> "firecrawl", msg |-> built.msg]
            /\ mainpc' = "constructed"
    /\ UNCHANGED <<input, rendered, calls, extractLog, genLog, pending>>

\* Lines 236-240 with PropertyFindingAgent.__init__, lines 45-51.  built says
\* what the two client constructors do: both succeed, OpenAI(...) raises
\* (line 46, outside the try), or FirecrawlApp(...) raises (line 48).
Construct(built) ==
    /\ mainpc = "constructing"
    /\ IF built.failed = "none"
       THEN /\ self' = Constructed(input.model_id)
            /\ ctor' = [outcome |-> "returned", failed |-> "none", msg |-> <<>>]
            /\ mainpc' = "constructed"
            /\ UNCHANGED errors
       ELSE IF built.failed = "openai"
       THEN /\ ctor' = [outcome |-> "raised", failed |-> "openai", msg |-> built.msg]
            /\ mainpc' = "except"
            /\ UNCHANGED <<self, errors>>
       ELSE /\ self' = [self EXCEPT !.agent = Constructed(input.model_id).agent]
            /\ errors' = Append(errors, <<"Failed to initialize Firecrawl: ">> \o built.msg)
            /\ ctor' = [outcome |-> "raised", failed |-> "firecrawl", msg |-> built.msg]
            /\ mainpc' = "except"
    /\ UNCHANGED <<input, rendered, calls, extractLog, genLog, pending>>

Builds ==
    {[failed |-> "none", msg |-> <<>>]}
        \cup [failed : {"openai", "firecrawl"}, msg : ExcMessages]

\* Lines 263-264: main's except clause.
MainExcept ==
    /\ mainpc = "except"
    /\ errors' = Append(errors, ErrorText(ctor.msg))
    /\ mainpc' = "returned"
    /\ UNCHANGED <<input, self, ctor, rendered, calls, extractLog, genLog, pending>>

\* Lines 242-248: main calls find_properties.
MainFindProperties ==
    /\ mainpc = "constructed"
    /\ FindBegin(1, input.city, input.max_price, input.property_category,
                 input.property_type)
    /\ mainpc' = "finding"
    /\ UNCHANGED <<input, ctor, rendered>>

\* Lines 250-257: main shows the recommendations and calls get_location_trends.
MainLocationTrends ==
    /\ mainpc = "finding"
    /\ calls[1].pc = "done"
    /\ rendered' = Append(rendered, calls[1].result)
    /\ TrendsBegin(2, input.city)
    /\ mainpc' = "trending"
    /\ UNCHANGED <<input, ctor>>

\* Lines 258-261: main shows the trends.
MainShowTrends ==
    /\ mainpc = "trending"
    /\ calls[2].pc = "done"
    /\ rendered' = Append(rendered, calls[2].result)
    /\ mainpc' = "returned"
    /\ UNCHANGED <<input, self, ctor, errors, calls, extractLog, genLog, pending>>

\* The external clients answer a call that is waiting for them, with one of
\* the given outcomes.
ExtractAnswers(i, outcomes) ==
    /\ calls[i].pc = "extracting"
    /\ \E outcome \in outcomes[calls[i].op] :
          \/ FindOnExtract(i, outcome)
          \/ TrendsOnExtract(i, outcome)
    /\ UNCHANGED <<mainpc, input, ctor, rendered>>

GenerateAnswers(i, outcomes) ==
    /\ calls[i].pc = "generating"
    /\ \E outcome \in outcomes :
          LET prompt == genLog[i][Len(genLog[i])].messages[1].content
          IN  \/ FindOnGenerate(i, Completion(outcome, prompt))
              \/ TrendsOnGenerate(i, Completion(outcome, prompt))
    /\ UNCHANGED <<mainpc, input, ctor, rendered>>

Next ==
    \/ MainValidate
    \/ \E built \in Builds : Construct(built)
    \/ MainExcept
    \/ MainFindProperties
    \/ MainLocationTrends
    \/ MainShowTrends
    \/ \E i \in Calls : ExtractAnswers(i, ExtractOutcomes)
    \/ \E i \in Calls : GenerateAnswers(i, GenOutcomes)

Spec == Init /\ [][Next]_vars

\* ------------------------------------------------------------- overlapping callers
\* One agent, built, whose two methods are called by callers that do not
\* wait for each other.
CallerInit ==
    /\ mainpc = "caller"
    /\ input \in {x \in Inputs : x.firecrawl_key # "" /\ x.openai_key # ""
                                  /\ x.city = <<>> /\ x.max_price = 50
                                  /\ x.property_category = <<"Residential">>
                                  /\ x.property_type = <<"Flat">>}
    /\ self = Constructed(input.model_id)
    /\ ctor = [outcome |-> "returned", failed |-> "none", msg |-> <<>>]
    /\ errors = <<>>
    /\ rendered = <<>>
    /\ calls = [i \in Calls |-> IdleCall]
    /\ extractLog = [i \in Calls |-> <<>>]
    /\ genLog = [i \in Calls |-> <<>>]
    /\ pending = {}

\* The callers ask for any city under 5.0 crores and leave property_category
\* and property_type to their defaults (line 53).
CallFindProperties(i) ==
    /\ \E city \in Cities :
          FindBegin(i, city, 50, <<"Residential">>, <<"Flat">>)
    /\ UNCHANGED <<mainpc, input, ctor, rendered>>

CallLocationTrends(i) ==
    /\ \E city \in Cities : TrendsBegin(i, city)
    /\ UNCHANGED <<mainpc, input, ctor, rendered>>

\* The outcomes the overlapping callers meet: an exception, a failure
\* envelope, a full success envelope; an exception or an echo.
CallerExtractOutcomes ==
    [op \in Methods |->
        {Raised(<<"E", "1">>), Returned(Envelope(PyBool(FALSE), Absent))}
            \cup {Returned(v) : v \in
                    IF op = "find_properties"
                    THEN {Envelope(PyBool(TRUE),
                                   Payload(PyList(Properties(MaxProps)), Absent))}
                    ELSE {Envelope(PyBool(TRUE),
                                   Payload(Absent, PyList(Locations(MaxProps))))}}]

CallerGenOutcomes == {Raised(<<"E", "2">>), Echo}

CallerNext ==
    \/ \E i \in Calls : CallFindProperties(i)
    \/ \E i \in Calls : CallLocationTrends(i)
    \/ \E i \in Calls : ExtractAnswers(i, CallerExtractOutcomes)
    \/ \E i \in Calls : GenerateAnswers(i, CallerGenOutcomes)

CallerSpec == CallerInit /\ [][CallerNext]_vars

\* ------------------------------------------------------------- properties
ErrorMarker == <<"Error: ">>

Done(i) == calls[i].pc = "done"

\* The prompt a call gave to the chat completion.
PromptOf(i) == genLog[i][1].messages[1].content

\* A failure envelope: a dict whose success flag is false or absent.
IsFailureEnvelope(raw) == IsDict(raw) /\ ~Truthy(raw.v["success"])
IsSuccessEnvelope(raw) == IsDict(raw) /\ Truthy(raw.v["success"])
HasPayload(raw) == IsSuccessEnvelope(raw) /\ IsDict(raw.v["data"])

\* The extraction call of a finished call raised: it left no raw_response.
ExtractionRaised(i) == Done(i) /\ calls[i].raw_response = Unset

\* C1: a finished call of either method has returned text, never raised, and
\* if an exception occurred during it the text begins with the marker "Error:".
C1_AlwaysReturnsText ==
    \A i \in Calls :
        Done(i) =>
            /\ calls[i].ret \in {"analysis", "nodata", "except"}
            /\ calls[i].ret = "except" <=> calls[i].exc # <<>>
            /\ calls[i].ret \in {"nodata", "except"} => calls[i].result # <<>>
            /\ calls[i].exc # <<>> => StartsWith(calls[i].result, ErrorMarker)

C1_Witness ==
    /\ Done(1) /\ calls[1].op = "find_properties" /\ calls[1].exc # <<>>
    /\ calls[1].raw_response # Unset /\ genLog[1] # <<>>
    /\ Done(2) /\ calls[2].op = "get_location_trends" /\ ExtractionRaised(2)

\* C2 (as stated): after a failure envelope, or a success envelope with an
\* empty locations list, get_location_trends makes no generation call and
\* returns "No price trends data available".
C2_NoDataShortCircuit ==
    \A i \in Calls :
        (/\ calls[i].op = "get_location_trends"
         /\ \/ IsFailureEnvelope(calls[i].raw_response)
            \/ /\ HasPayload(calls[i].raw_response)
               /\ calls[i].raw_response.v["data"].v["locations"] = PyList(<<>>))
        => /\ genLog[i] = <<>>
           /\ Done(i) => calls[i].result = NoTrendsText

\* C3: after a failure envelope find_properties has made exactly one
\* generation call, whose prompt embeds the empty list, and it returns the
\* text that call produced, not the text of the except clause.
C3_FailureEnvelopeStillGenerates ==
    \A i \in Calls :
        (/\ calls[i].op = "find_properties"
         /\ IsFailureEnvelope(calls[i].raw_response))
        => /\ Len(genLog[i]) = 1
           /\ Contains(PromptOf(i), <<"Properties Found:", "[", "]">>)
           /\ (Done(i) /\ calls[i].analysis # Unset) =>
                  /\ calls[i].ret = "analysis"
                  /\ calls[i].result = calls[i].analysis.content
           /\ (Done(i) /\ calls[i].ret = "except") => calls[i].analysis = Unset

C3_Witness ==
    /\ Done(1) /\ calls[1].op = "find_properties"
    /\ IsFailureEnvelope(calls[1].raw_response)
    /\ calls[1].ret = "analysis"
    /\ calls[1].result = PromptOf(1)

\* An extraction result of unexpected shape: not a dict, no success flag, or
\* a success envelope whose data is absent, null or lacks the properties key.
UnexpectedShape(raw) ==
    /\ raw # Unset
    /\ \/ ~IsDict(raw)
       \/ ~HasKey(raw, "success")
       \/ /\ IsSuccessEnvelope(raw)
          /\ \/ ~HasKey(raw, "data")
             \/ raw.v["data"] = PyNone
             \/ IsDict(raw.v["data"]) /\ ~HasKey(raw.v["data"], "properties")

\* C4 (as stated): after an extraction result of unexpected shape
\* find_properties goes on with an empty listings sequence: it makes the
\* generation call and returns its text, never the text of the except clause
\* for the shape.
C4_UnexpectedShapeIsEmpty ==
    \A i \in Calls :
        (/\ calls[i].op = "find_properties"
         /\ UnexpectedShape(calls[i].raw_response))
        => /\ Len(genLog[i]) = 1
           /\ calls[i].items = <<>>
           /\ (Done(i) /\ calls[i].analysis # Unset) =>
                  /\ calls[i].ret = "analysis"
                  /\ calls[i].result = calls[i].analysis.content

\* C5: when firecrawl.extract raises inside get_location_trends, the text
\* returned begins with "Error:" and contains the exception's message, and no
\* generation call was made.
C5_TrendsExtractionRaises ==
    \A i \in Calls :
        (calls[i].op = "get_location_trends" /\ ExtractionRaised(i))
        => /\ calls[i].exc \in ExcMessages
           /\ StartsWith(calls[i].result, ErrorMarker)
           /\ Contains(calls[i].result, calls[i].exc)
           /\ genLog[i] = <<>>

C5_Witness ==
    \E i \in Calls :
        /\ calls[i].op = "get_location_trends" /\ ExtractionRaised(i)
        /\ calls[i].exc = <<"E", "2">>

\* C6 (as stated): with a success envelope of property records and a chat
\* completion that echoes its prompt, the text find_properties returns is
\* that echo and contains the city, the price ceiling and every building name.
C6_RoundTrip ==
    \A i \in Calls :
        (/\ calls[i].op = "find_properties"
         /\ Done(i)
         /\ HasPayload(calls[i].raw_response)
         /\ calls[i].items # <<>>
         /\ calls[i].analysis # Unset
         /\ calls[i].analysis.content = PromptOf(i))
        => /\ calls[i].result = PromptOf(i)
           /\ Contains(calls[i].result, calls[i].city)
           /\ Contains(calls[i].result, StrFloat(calls[i].max_price))
           /\ \A k \in 1..Len(calls[i].items) :
                  Contains(calls[i].result, calls[i].items[k].Building_name)

\* Two characters are the same letter in either case.
SameLetter(c, d) == c = d \/ {c, d} = {"J", "j"}

\* Two strings differ at most in letter case.
CaseVariants(a, b) ==
    /\ Len(a) = Len(b)
    /\ \A k \in 1..Len(a) : SameLetter(a[k], b[k])

\* C7: two find_properties calls whose cities differ at most in letter case
\* (the same city included) pass firecrawl.extract the same source locations,
\* entry by entry.
C7_SourceLocationsIgnoreCase ==
    \A i, j \in Calls :
        (/\ calls[i].op = "find_properties"
         /\ calls[j].op = "find_properties"
         /\ CaseVariants(calls[i].city, calls[j].city))
        => extractLog[i][1].urls = extractLog[j][1].urls

C7_Witness ==
    /\ calls[1].op = "find_properties"
    /\ calls[2].op = "find_properties"
    /\ calls[1].city = <<"J", "_">>
    /\ calls[2].city = <<"j", "_">>
    /\ Len(extractLog[1][1].urls) = 3

\* C8: a call of either method makes exactly one extraction call and at most
\* one generation call, the generation call only after the extraction call
\* has returned; nothing is called again after a failure; and the method has
\* returned only when no external call of its own is in flight.
C8_OneExtractionThenAtMostOneGeneration ==
    \A i \in Calls :
        /\ calls[i].pc = "idle" => extractLog[i] = <<>> /\ genLog[i] = <<>>
        /\ calls[i].pc # "idle" => Len(extractLog[i]) = 1
        /\ Len(genLog[i]) <= 1
        /\ genLog[i] # <<>> =>
              /\ calls[i].raw_response # Unset
              /\ <<i, "extract">> \notin pending
        /\ <<i, "extract">> \in pending <=> calls[i].pc = "extracting"
        /\ <<i, "generate">> \in pending <=> calls[i].pc = "generating"
        /\ Done(i) => \A kind \in {"extract", "generate"} : <<i, kind>> \notin pending

C8_Witness ==
    /\ Done(1) /\ calls[1].exc # <<>> /\ Len(genLog[1]) = 1
    /\ Done(2) /\ ExtractionRaised(2) /\ Len(extractLog[2]) = 1

\* The text a finished call must return, from its own arguments and the
\* answers to its own external calls.
OwnItems(i) ==
    IF calls[i].op = "find_properties"
    THEN FindListings(calls[i].raw_response).value
    ELSE TrendsLocations(calls[i].raw_response).value

OwnPrompt(i) ==
    IF calls[i].op = "find_properties"
    THEN FindAnalysisPrompt(OwnItems(i), calls[i].max_price,
                            calls[i].property_category, calls[i].property_type)
    ELSE TrendsAnalysisPrompt(OwnItems(i), calls[i].city)

Independent(i) ==
    /\ genLog[i] # <<>> => PromptOf(i) = OwnPrompt(i)
    /\ (Done(i) /\ calls[i].ret = "analysis") => calls[i].result = OwnPrompt(i)
    /\ (Done(i) /\ calls[i].ret = "except") => calls[i].result = ErrorText(calls[i].exc)
    /\ (Done(i) /\ calls[i].ret = "nodata") => calls[i].result = NoTrendsText

\* C9: with calls of the two methods overlapping on one agent, the agent's
\* two client handles stay as the constructor set them, and the prompt and
\* the result of a call are those its own arguments and its own answers give
\* (the chat completion echoing), whatever the other call does.
C9_CallsAreIndependent ==
    /\ self = Constructed(input.model_id)
    /\ \A i \in Calls : Independent(i)

C9_Witness ==
    /\ calls[1].pc = "generating" /\ calls[1].op = "find_properties"
    /\ Done(2) /\ calls[2].op = "get_location_trends" /\ calls[2].ret = "analysis"
    /\ calls[1].city # calls[2].city

\* C10: when a client constructor fails, PropertyFindingAgent.__init__ ends
\* by raising, no call of either method is started and no extraction or
\* generation call is made, and by the time main returns st.error has been
\* given a text with the exception's message.
C10_ConstructionFailureIsFatal ==
    ctor.failed # "none" =>
        /\ ctor.outcome = "raised"
        /\ mainpc \in {"except", "returned"}
        /\ \A i \in Calls :
              calls[i].pc = "idle" /\ extractLog[i] = <<>> /\ genLog[i] = <<>>
        /\ pending = {}
        /\ rendered = <<>>
        /\ ctor.failed = "firecrawl" =>
              \E k \in 1..Len(errors) : Contains(errors[k], ctor.msg)
        /\ mainpc = "returned" =>
              \E k \in 1..Len(errors) :
                  StartsWith(errors[k], ErrorMarker) /\ Contains(errors[k], ctor.msg)

C10_Witness ==
    /\ ctor.failed = "openai"
    /\ mainpc = "returned"
    /\ Len(errors) = 1

====
